---- MODULE Spec2Model ----
(***************************************************************************)
(* Model of src/src/fetch_insider_news.py: the numeric normalizers, the    *)
(* free-text and structured-form trade extractors, the extraction          *)
(* orchestrator and the incremental merge performed by main().             *)
(*                                                                         *)
(* Text that the code inspects character by character (numbers, document   *)
(* locators, Unique_IDs, tickers) is a sequence of one-character strings.  *)
(* Text that the code only copies (names, roles, titles) is a string.      *)
(***************************************************************************)
EXTENDS Integers, Sequences, FiniteSets, TLC

VARIABLES
    \* main(): the table file, the page cache and the locals of a run
    persisted,            \* rows of data/insider_trades.csv
    cache_html,           \* data/cache_html: link -> <<page>> or <<>>
    pc,                   \* "idle" between runs, "loop" inside the candidate loop
    osebx,                \* the allow-list set of the run
    candidate_releases,
    existing_ids,
    existing_rows,
    new_rows,
    k,                    \* index of the next candidate
    log,                  \* what the loop did with each candidate of the run
    runs,                 \* completed runs
    \* the inputs of a repeated run and the table its first run left
    mode, in_listing, in_allow, site, after_first,
    \* extraction orchestrator harness
    orc_pc, orc_meta, orc_out,
    \* free-text extractor harness
    txt_pc, txt_body, txt_trades,
    \* numeric normalizer harness
    num_pc, num_x, num_int, num_dec,
    \* structured-form extractor harness
    form_pc, form_text, form_trades

mainVars == << persisted, cache_html, pc, osebx, candidate_releases, existing_ids,
               existing_rows, new_rows, k, log, runs,
               mode, in_listing, in_allow, site, after_first >>
orcVars  == << orc_pc, orc_meta, orc_out >>
txtVars  == << txt_pc, txt_body, txt_trades >>
numVars  == << num_pc, num_x, num_int, num_dec >>
formVars == << form_pc, form_text, form_trades >>

vars == << mainVars, orcVars, txtVars, numVars, formVars >>

-----------------------------------------------------------------------------
(* Bounds of the model *)

MaxNumLen == 4
MaxBodyLen == 3
MaxAtt == 4
MaxRows == 2
MaxRuns == 2

-----------------------------------------------------------------------------
(* Character-level helpers (Python str methods used by the code) *)

Digits == {"0", "1", "2", "3", "4", "5", "6", "7", "8", "9"}

RECURSIVE SeqsUpTo(_, _)
SeqsUpTo(S, n) ==
    IF n = 0 THEN {<<>>}
    ELSE LET shorter == SeqsUpTo(S, n - 1)
         IN  shorter \cup {Append(s, c) : s \in {t \in shorter : Len(t) = n - 1}, c \in S}

\* s.replace(c, "")
Remove(s, c) == SelectSeq(s, LAMBDA ch : ch # c)

\* s.replace(c, d) for single characters
Replace(s, c, d) == [i \in 1..Len(s) |-> IF s[i] = c THEN d ELSE s[i]]

\* c in s
Has(s, c) == \E i \in 1..Len(s) : s[i] = c

\* s.count(c)
Count(s, c) == Cardinality({i \in 1..Len(s) : s[i] = c})

\* index of the last occurrence of c in s (0 when absent)
LastIndex(s, c) ==
    IF Has(s, c) THEN CHOOSE i \in 1..Len(s) : s[i] = c /\ \A j \in (i+1)..Len(s) : s[j] # c
    ELSE 0

\* s.startswith(p)
StartsWith(s, p) == Len(p) <= Len(s) /\ SubSeq(s, 1, Len(p)) = p

-----------------------------------------------------------------------------
(* Numeric Normalizer *)

\* _to_intish: drop spaces and commas, then every non-digit
_to_intish(x) ==
    LET a == Remove(x, " ")
        b == Remove(a, ",")
    IN  SelectSeq(b, LAMBDA ch : ch \in Digits)

\* "".join(parts[:-1]) + "." + parts[-1] where parts = s.split(".")
KeepLastPeriod(s) ==
    LET p == LastIndex(s, ".")
    IN  Remove(SubSeq(s, 1, p - 1), ".") \o <<".">> \o SubSeq(s, p + 1, Len(s))

\* a variant that keeps the first period instead of the last
KeepFirstPeriod(s) ==
    LET p == CHOOSE i \in 1..Len(s) : s[i] = "." /\ \A j \in 1..(i-1) : s[j] # "."
    IN  SubSeq(s, 1, p - 1) \o <<".">> \o Remove(SubSeq(s, p + 1, Len(s)), ".")

\* a variant of _to_decimalish that keeps the first period
_to_decimalish_first(x) ==
    IF x = <<>> THEN <<>>
    ELSE LET s0 == Remove(x, " ")
             s1 == IF Has(s0, ",") /\ Has(s0, ".") THEN Remove(s0, ",")
                   ELSE Replace(s0, ",", ".")
             s2 == SelectSeq(s1, LAMBDA ch : ch \in Digits \cup {"."})
         IN  IF Count(s2, ".") > 1 THEN KeepFirstPeriod(s2) ELSE s2

\* _to_decimalish: one decimal point, comma read as thousands or decimal separator
_to_decimalish(x) ==
    IF x = <<>> THEN <<>>
    ELSE LET s0 == Remove(x, " ")
             s1 == IF Has(s0, ",") /\ Has(s0, ".") THEN Remove(s0, ",")
                   ELSE Replace(s0, ",", ".")
             s2 == SelectSeq(s1, LAMBDA ch : ch \in Digits \cup {"."})
         IN  IF Count(s2, ".") > 1 THEN KeepLastPeriod(s2) ELSE s2

-----------------------------------------------------------------------------
(* Case and whitespace helpers *)

LowerLetters == <<"a","b","c","d","e","f","g","h","i","j","k","l","m",
                  "n","o","p","q","r","s","t","u","v","w","x","y","z">>
UpperLetters == <<"A","B","C","D","E","F","G","H","I","J","K","L","M",
                  "N","O","P","Q","R","S","T","U","V","W","X","Y","Z">>

UpperChar(c) ==
    IF \E i \in 1..26 : LowerLetters[i] = c
    THEN UpperLetters[CHOOSE i \in 1..26 : LowerLetters[i] = c]
    ELSE c

\* s.upper()
Upper(s) == [i \in 1..Len(s) |-> UpperChar(s[i])]

\* s.strip() (spaces are the only whitespace of the model)
RECURSIVE Strip(_)
Strip(s) ==
    IF s = <<>> THEN s
    ELSE IF Head(s) = " " THEN Strip(Tail(s))
    ELSE IF s[Len(s)] = " " THEN Strip(SubSeq(s, 1, Len(s) - 1))
    ELSE s

\* f"{ccy} {price}"
Money(ccy, amount) == ccy \o <<" ">> \o amount

-----------------------------------------------------------------------------
(* Free-Text Trade Extractor.                                               *)
(*                                                                          *)
(* The cleaned body text is a sequence of clauses, one per place where a    *)
(* part of a regular expression of extract_trades_from_text can match:      *)
(*   "sent"   <Name>, <role>, [has on <date>] <verb> <n> shares             *)
(*   "price"  share price [of] <CCY> <amount>                               *)
(*   "total"  total of <n> shares                                           *)
(*   "avg"    average price per share of|was <CCY> <amount>                 *)
(*   "other"  text in which no pattern matches                              *)
(* Clean text holds no newline, so the lazy ".*?" of both patterns crosses  *)
(* any clause on its way to the next "price" (or "avg") clause.             *)

BuyVerbs == {"bought", "purchased", "acquired"}

\* the label of the aggregate record (the source spells it with an en dash)
AggregateName == "(Aggregate - primary insiders)"

\* index of the first clause of kind t after position i (0 when there is none)
NextOf(toks, i, t) ==
    IF \E j \in (i+1)..Len(toks) : toks[j].t = t
    THEN CHOOSE j \in (i+1)..Len(toks) : toks[j].t = t /\ \A l \in (i+1)..(j-1) : toks[l].t # t
    ELSE 0

\* the record built from one match of the sentence pattern; pr is the "price"
\* clause the optional group matched, or <<>> when the group did not match
SentenceTrade(snt, pr) ==
    LET ccy   == IF pr = <<>> THEN <<>> ELSE Upper(pr[1].ccy)
        price == _to_decimalish(IF pr = <<>> THEN <<>> ELSE pr[1].price)
    IN  [ Insider_name |-> snt.name,
          Role |-> snt.role,
          Transaction |-> IF snt.verb \in BuyVerbs THEN "BUY" ELSE "SELL",
          Shares |-> _to_intish(snt.shares),
          Price |-> IF ccy # <<>> /\ price # <<>> THEN Strip(Money(ccy, price)) ELSE <<>>,
          Value |-> <<>>,
          Ownership_after |-> <<>>,
          Trade_date |-> snt.tradedate,
          _issuer_from_pdf |-> "" ]

\* pat.finditer(t): matches from position i on, left to right, non-overlapping
RECURSIVE SentenceMatches(_, _)
SentenceMatches(toks, i) ==
    IF i > Len(toks) THEN <<>>
    ELSE IF toks[i].t = "sent"
    THEN LET j == NextOf(toks, i, "price")
         IN  IF j = 0
             THEN <<SentenceTrade(toks[i], <<>>)>> \o SentenceMatches(toks, i + 1)
             ELSE <<SentenceTrade(toks[i], <<toks[j]>>)>> \o SentenceMatches(toks, j + 1)
    ELSE SentenceMatches(toks, i + 1)

\* the aggregate fallback: the first "total" clause that an "avg" clause follows
AggregateTrades(toks) ==
    LET starts == {i \in 1..Len(toks) : toks[i].t = "total" /\ NextOf(toks, i, "avg") # 0}
    IN  IF starts = {} THEN <<>>
        ELSE LET i == CHOOSE a \in starts : \A b \in starts : a <= b
                 j == NextOf(toks, i, "avg")
             IN  << [ Insider_name |-> AggregateName,
                      Role |-> "",
                      Transaction |-> "BUY",
                      Shares |-> _to_intish(toks[i].shares),
                      Price |-> Money(Upper(toks[j].ccy), _to_decimalish(toks[j].price)),
                      Value |-> <<>>,
                      Ownership_after |-> <<>>,
                      Trade_date |-> "",
                      _issuer_from_pdf |-> "" ] >>

extract_trades_from_text(text) ==
    LET trades == SentenceMatches(text, 1)
    IN  IF trades # <<>> THEN trades ELSE AggregateTrades(text)

-----------------------------------------------------------------------------
(* Structured-Form Trade Extractor.                                         *)
(*                                                                          *)
(* The text of an attachment is the sequence of its non-blank person        *)
(* blocks (the pieces re.split leaves); the empty sequence is text that is  *)
(* empty or blank.  A block holds what its label searches capture: name,    *)
(* role, issuer and the transaction chunks.  A chunk holds, for each search *)
(* of the loop body, the captured groups, or <<>> where the search fails:   *)
(*   nature  the keywords found in the "Nature of the transaction" value    *)
(*   date    the "Date of the transaction" value ("" when absent)           *)
(*   pv      <<[ccy, price, vol]>>  "Price: CCY amount[, volume: amount]"   *)
(*   agg     <<amount>>             "Aggregated information: Volume amount" *)
(*   vol2    <<amount>>             "Volume amount"                         *)
(*   vwapLabel                      "Volume weighted average price" occurs  *)
(*   vwap    <<amount>>             "Volume weighted average price amount"  *)
(*   nok     the word NOK occurs                                            *)
(*   total   <<[ccy, tot]>>         "Total price CCY amount"                *)

_txn_from_nature(nature) ==
    IF nature \cap {"acquisition", "purchase", "buy"} # {} THEN "BUY"
    ELSE IF nature \cap {"disposal", "sale", "sell"} # {} THEN "SELL"
    ELSE ""

\* one iteration of "for ch in txn_chunks": the record, or <<>> when not meaningful
ChunkTrade(name, role, issuer, ch) ==
    LET txn    == _txn_from_nature(ch.nature)
        ccy0   == IF ch.pv # <<>> THEN Upper(ch.pv[1].ccy) ELSE <<>>
        price0 == IF ch.pv # <<>> THEN _to_decimalish(ch.pv[1].price) ELSE <<>>
        vol0   == IF ch.pv # <<>> THEN _to_intish(ch.pv[1].vol) ELSE <<>>
        vol    == IF vol0 # <<>> THEN vol0
                  ELSE IF ch.agg # <<>> THEN _to_intish(ch.agg[1])
                  ELSE IF ch.vol2 # <<>> /\ ~ch.vwapLabel THEN _to_intish(ch.vol2[1])
                  ELSE vol0
        useVwap == price0 = <<>> /\ ch.vwap # <<>>
        price  == IF useVwap THEN _to_decimalish(ch.vwap[1]) ELSE price0
        ccy    == IF useVwap /\ ccy0 = <<>> /\ ch.nok THEN <<"N","O","K">> ELSE ccy0
        total_val == IF ch.total # <<>>
                     THEN Money(Upper(ch.total[1].ccy), _to_decimalish(ch.total[1].tot))
                     ELSE <<>>
    IN  IF name # "" \/ role # "" \/ txn # "" \/ vol # <<>> \/ price # <<>>
           \/ ch.date # "" \/ total_val # <<>>
        THEN << [ Insider_name |-> name,
                  Role |-> role,
                  Transaction |-> txn,
                  Shares |-> vol,
                  Price |-> IF ccy # <<>> /\ price # <<>> THEN Strip(Money(ccy, price))
                            ELSE IF ccy # <<>> THEN Strip(ccy) ELSE <<>>,
                  Value |-> total_val,
                  Ownership_after |-> <<>>,
                  Trade_date |-> ch.date,
                  _issuer_from_pdf |-> issuer ] >>
        ELSE <<>>

RECURSIVE ChunkTrades(_, _, _, _)
ChunkTrades(name, role, issuer, chunks) ==
    IF chunks = <<>> THEN <<>>
    ELSE ChunkTrade(name, role, issuer, Head(chunks))
         \o ChunkTrades(name, role, issuer, Tail(chunks))

RECURSIVE BlockTrades(_)
BlockTrades(blocks) ==
    IF blocks = <<>> THEN <<>>
    ELSE LET b == Head(blocks)
         IN  ChunkTrades(b.name, b.role, b.issuer, b.chunks) \o BlockTrades(Tail(blocks))

\* the key of the "Deduplicate" loop
DedupKey(r) ==
    <<r.Insider_name, r.Role, r.Transaction, r.Shares, r.Price, r.Trade_date, r.Value>>

\* keeps the first record of every key, in order
Deduplicate(results) ==
    LET keep == {i \in 1..Len(results) :
                    \A j \in 1..(i-1) : DedupKey(results[j]) # DedupKey(results[i])}
        F[i \in 0..Len(results)] ==
            IF i = 0 THEN <<>>
            ELSE IF i \in keep THEN Append(F[i-1], results[i]) ELSE F[i-1]
    IN  F[Len(results)]

parse_mar_pdf_text(pdf_text) ==
    IF pdf_text = <<>> THEN <<>>
    ELSE Deduplicate(BlockTrades(pdf_text))

-----------------------------------------------------------------------------
(* Extraction Orchestrator.                                                 *)
(*                                                                          *)
(* An attachment locator stands for what the locator leads to:              *)
(*   dl    "ok" | "err"   download_file returns or raises                   *)
(*   conv  "ok" | "err"   pdfplumber reads the file or fails                *)
(*   text  the text of the pages (empty for an image-only scan)             *)

\* the slice bound of pdf_urls[:3]
MaxPdfs == 3

\* try_pdf_to_text: "" on any failure
try_pdf_to_text(att) == IF att.conv = "err" THEN <<>> ELSE att.text

\* the loop over the attachments from index i on; touched lists the
\* attachments downloaded so far
RECURSIVE PdfLoop(_, _, _)
PdfLoop(meta, i, touched) ==
    IF i > Len(meta.pdf_urls) \/ i > MaxPdfs
    THEN [ trades |-> extract_trades_from_text(meta.body_text),
           touched |-> touched, body_used |-> TRUE ]
    ELSE LET att == meta.pdf_urls[i]
             now == Append(touched, i)
         IN  IF att.dl = "err" THEN PdfLoop(meta, i + 1, now)
             ELSE LET pdf_text == try_pdf_to_text(att)
                  IN  IF pdf_text = <<>> THEN PdfLoop(meta, i + 1, now)
                      ELSE LET trades == parse_mar_pdf_text(pdf_text)
                           IN  IF trades # <<>>
                               THEN [ trades |-> trades, touched |-> now,
                                      body_used |-> FALSE ]
                               ELSE PdfLoop(meta, i + 1, now)

\* a variant whose loop does not stop at the first attachment with records:
\* the last such attachment wins
RECURSIVE PdfLoopLast(_, _, _, _)
PdfLoopLast(meta, i, touched, best) ==
    IF i > Len(meta.pdf_urls) \/ i > MaxPdfs
    THEN IF best # <<>>
         THEN [ trades |-> best, touched |-> touched, body_used |-> FALSE ]
         ELSE [ trades |-> extract_trades_from_text(meta.body_text),
                touched |-> touched, body_used |-> TRUE ]
    ELSE LET att == meta.pdf_urls[i]
             now == Append(touched, i)
             got == IF att.dl = "err" THEN <<>>
                    ELSE parse_mar_pdf_text(try_pdf_to_text(att))
         IN  PdfLoopLast(meta, i + 1, now, IF got # <<>> THEN got ELSE best)

prefer_pdf_last(meta) == PdfLoopLast(meta, 1, <<>>, <<>>)

\* extract_trades_prefer_pdf_then_fallback, with the trace of what it touched
extract_trades_prefer_pdf_then_fallback(meta) == PdfLoop(meta, 1, <<>>)

-----------------------------------------------------------------------------
(* Listing scrape: the candidate releases of main()                         *)

TOPIC_SIGNAL_MAP ==
    [ t \in {"Mandatory notification of trade primary insiders",
             "Major shareholding notifications",
             "Flagging",
             "Acquisition or disposal of the issuer's own shares"} |->
        IF t = "Mandatory notification of trade primary insiders" THEN "INSIDER_TRADE"
        ELSE IF t = "Acquisition or disposal of the issuer's own shares" THEN "BUYBACK"
        ELSE "FLAGGING" ]

\* the site prefix norm_url puts before a relative href
SiteRoot == <<"h">>

norm_url(href) ==
    IF href = <<>> THEN <<>>
    ELSE IF Head(href) = "/" THEN SiteRoot \o href
    ELSE href

\* [A-Z0-9]{2,10}
IsTickerWord(w) ==
    /\ Len(w) >= 2
    /\ Len(w) <= 10
    /\ \A i \in 1..Len(w) : w[i] \in Digits \/ \E j \in 1..26 : UpperLetters[j] = w[i]

\* guess_ticker over the words of the company cell; a word is [w, paren],
\* paren telling whether it stands in parentheses
guess_ticker(words) ==
    LET par  == {i \in 1..Len(words) : words[i].paren /\ IsTickerWord(words[i].w)}
        bare == {i \in 1..Len(words) : IsTickerWord(words[i].w)}
    IN  IF par # {} THEN words[CHOOSE i \in par : \A j \in par : i <= j].w
        ELSE IF bare # {} THEN words[CHOOSE i \in bare : \A j \in bare : i <= j].w
        ELSE <<>>

\* the candidate a listing row becomes
Candidate(tr) ==
    [ released |-> tr.released,
      company |-> tr.company,
      title |-> tr.title,
      topic |-> tr.topic,
      signal_type |-> TOPIC_SIGNAL_MAP[tr.topic],
      ticker_guess |-> guess_ticker(tr.words),
      link |-> norm_url(tr.href) ]

\* a variant of the scrape loop without the seen_links test
RECURSIVE ScrapeNoSeen(_, _)
ScrapeNoSeen(trs, seen_links) ==
    IF trs = <<>> THEN <<>>
    ELSE LET tr == Head(trs)
         IN  IF tr.topic \notin DOMAIN TOPIC_SIGNAL_MAP
             THEN ScrapeNoSeen(Tail(trs), seen_links)
             ELSE <<Candidate(tr)>> \o ScrapeNoSeen(Tail(trs), seen_links)

\* the loop over the rows of the listing pages: topic filter, then one
\* candidate per link
RECURSIVE Scrape(_, _)
Scrape(trs, seen_links) ==
    IF trs = <<>> THEN <<>>
    ELSE LET tr   == Head(trs)
             link == norm_url(tr.href)
         IN  IF tr.topic \notin DOMAIN TOPIC_SIGNAL_MAP THEN Scrape(Tail(trs), seen_links)
             ELSE IF link \in seen_links THEN Scrape(Tail(trs), seen_links)
             ELSE <<Candidate(tr)>> \o Scrape(Tail(trs), seen_links \cup {link})

-----------------------------------------------------------------------------
(* The allow-list file and the persisted table                              *)

\* load_osebx over the rows of the file; <<"absent">> stands for no file
load_osebx(file) ==
    IF file = <<"absent">> THEN {}
    ELSE { Upper(Strip(file[i][1])) :
             i \in {j \in 1..Len(file) : file[j] # <<>> /\ Strip(file[j][1]) # <<>>} }

\* a variant that collects no identifier (it reads a column the file lacks)
ExistingIdsNone(rows) == {}

\* the Unique_ID set main() builds while reading the table
ExistingIds(rows) ==
    { rows[i].Unique_ID : i \in {j \in 1..Len(rows) : rows[j].Unique_ID # <<>>} }

\* str(i) for i >= 0
RECURSIVE ToStr(_)
ToStr(i) ==
    LET d == <<"0", "1", "2", "3", "4", "5", "6", "7", "8", "9">>
    IN  IF i < 10 THEN <<d[i + 1]>> ELSE ToStr(i \div 10) \o <<d[(i % 10) + 1]>>

\* f"{link}|{i}"
Uid(link, i) == link \o <<"|">> \o ToStr(i)

\* a variant of the skip test that looks for the first record only
AlreadySeenFirst(link, ids) == Uid(link, 1) \in ids

\* any(uid.startswith(link + "|") for uid in existing_ids)
AlreadySeen(link, ids) == \E uid \in ids : StartsWith(uid, link \o <<"|">>)

-----------------------------------------------------------------------------
(* One iteration of "for rel in candidate_releases"                         *)

\* the meta of the except branch; an absent key reads as empty
FallbackMeta ==
    [ date_filed |-> "", issuer |-> "", symbol |-> <<>>, market |-> "",
      body_text |-> <<>>, pdf_urls |-> <<>> ]

\* list(dict.fromkeys(pdf_urls)) over locators: first occurrences, in order
DedupUrls(atts) ==
    LET keep == {i \in 1..Len(atts) : \A j \in 1..(i-1) : atts[j].url # atts[i].url}
        F[i \in 0..Len(atts)] ==
            IF i = 0 THEN <<>>
            ELSE IF i \in keep THEN Append(F[i-1], atts[i]) ELSE F[i-1]
    IN  F[Len(atts)]

\* cached_get_text: the cached page, else the response (<<>> when the request
\* fails or the status is not a success)
cached_get_text(link, cache, resp) ==
    IF cache[link] # <<>> THEN cache[link] ELSE resp

\* parse_release_meta_and_text on the page text; <<>> stands for the raise
parse_release_meta_and_text(html) ==
    IF html = <<>> THEN <<>>
    ELSE << [ date_filed |-> html[1].date_filed,
              issuer |-> html[1].issuer,
              symbol |-> html[1].symbol,
              market |-> html[1].market,
              body_text |-> html[1].body_text,
              pdf_urls |-> DedupUrls(html[1].pdf_hrefs) ] >>

\* a variant of the except branch that gives the document up
MetaOrGiveUp(parsed) == parsed

\* try/except around parse_release_meta_and_text: <<meta>>
MetaOrFallback(parsed) == IF parsed = <<>> THEN <<FallbackMeta>> ELSE parsed

ResolvedTicker(meta, rel) ==
    Upper(IF meta.symbol # <<>> THEN meta.symbol ELSE rel.ticker_guess)

\* a variant of the filter without the "and ticker" test
DiscardedNoTickerTest(osebx_, ticker) == osebx_ # {} /\ ticker \notin osebx_

\* if osebx and ticker and ticker not in osebx: continue
Discarded(osebx_, ticker) == osebx_ # {} /\ ticker # <<>> /\ ticker \notin osebx_

\* a variant of enumerate(trades, start=1) that counts from 0
PositionFrom0(i) == i - 1

\* the number enumerate(trades, start=1) gives the i-th trade
Position(i) == i

Row(uid, rel, meta, ticker, company_name, t) ==
    [ Unique_ID |-> uid,
      Date_filed |-> IF meta.date_filed # "" THEN meta.date_filed ELSE rel.released,
      Trade_date |-> t.Trade_date,
      Ticker |-> ticker,
      Company |-> company_name,
      Insider_name |-> t.Insider_name,
      Role |-> t.Role,
      Transaction |-> t.Transaction,
      Shares |-> t.Shares,
      Price |-> t.Price,
      Value |-> t.Value,
      Ownership_after |-> t.Ownership_after,
      Source_link |-> rel.link,
      Market |-> IF meta.market # "" THEN meta.market ELSE "EURONEXT/OSLO",
      Topic |-> rel.topic,
      Signal_type |-> rel.signal_type,
      Title |-> rel.title ]

\* the trade fields of the signal row
NoTrade ==
    [ Insider_name |-> "", Role |-> "", Transaction |-> "", Shares |-> <<>>,
      Price |-> <<>>, Value |-> <<>>, Ownership_after |-> <<>>, Trade_date |-> "" ]

\* the rows one document adds to new_rows
DocRows(rel, meta, trades, ids) ==
    LET ticker  == ResolvedTicker(meta, rel)
        company == IF meta.issuer # "" THEN meta.issuer ELSE rel.company
        company_name == IF trades # <<>> /\ trades[1]._issuer_from_pdf # ""
                        THEN trades[1]._issuer_from_pdf ELSE company
        all == IF trades # <<>>
               THEN [ i \in 1..Len(trades) |->
                        Row(Uid(rel.link, Position(i)), rel, meta, ticker,
                            company_name, trades[i]) ]
               ELSE << Row(Uid(rel.link, 0), rel, meta, ticker, company_name, NoTrade) >>
    IN  SelectSeq(all, LAMBDA r : r.Unique_ID \notin ids)

\* the loop body for one candidate: what happened (ev), which calls it made
\* (fetched: parse_release_meta_and_text, failed: that call raised, extracted:
\* extract_trades_prefer_pdf_then_fallback) and the rows it appended.  The
\* except branch always yields a meta, so ev is never "abandon".
LoopBody(rel, cache, resp, osebx_, ids) ==
    IF AlreadySeen(rel.link, ids)
    THEN [ ev |-> "skip", fetched |-> FALSE, failed |-> FALSE, extracted |-> FALSE,
           symbol |-> <<>>, ticker |-> <<>>, ntrades |-> 0, rows |-> <<>> ]
    ELSE LET html   == cached_get_text(rel.link, cache, resp)
             parsed == parse_release_meta_and_text(html)
             got    == MetaOrFallback(parsed)
         IN  IF got = <<>>
             THEN [ ev |-> "abandon", fetched |-> TRUE, failed |-> TRUE,
                    extracted |-> FALSE, symbol |-> <<>>, ticker |-> <<>>,
                    ntrades |-> 0, rows |-> <<>> ]
             ELSE LET meta   == got[1]
                      ticker == ResolvedTicker(meta, rel)
                  IN  IF Discarded(osebx_, ticker)
                      THEN [ ev |-> "discard", fetched |-> TRUE, failed |-> parsed = <<>>,
                             extracted |-> FALSE, symbol |-> meta.symbol,
                             ticker |-> ticker, ntrades |-> 0, rows |-> <<>> ]
                      ELSE LET trades ==
                                   extract_trades_prefer_pdf_then_fallback(meta).trades
                           IN  [ ev |-> "extract", fetched |-> TRUE,
                                 failed |-> parsed = <<>>, extracted |-> TRUE,
                                 symbol |-> meta.symbol, ticker |-> ticker,
                                 ntrades |-> Len(trades),
                                 rows |-> DocRows(rel, meta, trades, ids) ]

\* a variant of "existing_rows + new_rows" with the operands swapped
AllRowsNewFirst(existing_rows_, new_rows_) == new_rows_ \o existing_rows_

\* all_rows = existing_rows + new_rows
AllRows(existing_rows_, new_rows_) == existing_rows_ \o new_rows_

-----------------------------------------------------------------------------
(* The inputs the model draws from                                          *)

NOK == <<"N", "O", "K">>
TickerAA == <<"A", "A">>
TickerBB == <<"B", "B">>

LinkA  == <<"h", "/", "a">>
LinkB  == <<"h", "/", "b">>
LinkA1 == <<"h", "/", "a", "|", "1">>
Links  == {LinkA, LinkB, LinkA1}

Word(w, paren) == [w |-> w, paren |-> paren]

\* rows of the listing table: a relative and an absolute href of one release,
\* a release whose company cell holds no ticker, a release whose locator
\* extends another locator, and a row of a topic that is no signal
TrA ==
    [ released |-> "05 Feb 2026", company |-> "Aker ASA (AA)",
      words |-> << Word(<<"A","k","e","r">>, FALSE), Word(<<"A","S","A">>, FALSE),
                   Word(TickerAA, TRUE) >>,
      title |-> "Primary insider trade",
      topic |-> "Mandatory notification of trade primary insiders",
      href |-> <<"/", "a">> ]
TrAabs == [TrA EXCEPT !.href = LinkA]
TrB ==
    [ released |-> "06 Feb 2026", company |-> "borr drilling",
      words |-> << Word(<<"b","o","r","r">>, FALSE), Word(<<"d","r","i","l","l">>, FALSE) >>,
      title |-> "Flagging", topic |-> "Flagging", href |-> <<"/", "b">> ]
TrA1 ==
    [ released |-> "07 Feb 2026", company |-> "BB Corp",
      words |-> << Word(TickerBB, FALSE), Word(<<"C","o","r","p">>, FALSE) >>,
      title |-> "Buyback", topic |-> "Acquisition or disposal of the issuer's own shares",
      href |-> <<"/", "a", "|", "1">> ]
TrReport == [TrB EXCEPT !.topic = "Annual financial report", !.title = "Annual report"]

ListingRows == {TrA, TrAabs, TrB, TrA1, TrReport}
Listings == SeqsUpTo(ListingRows, MaxRows)

\* clauses of a body text
SentJohn == [ t |-> "sent", name |-> "John Doe", role |-> "CEO", verb |-> "bought",
              shares |-> <<"1", "0", "0">>, tradedate |-> "" ]
SentJane == [ t |-> "sent", name |-> "Jane Roe", role |-> "CFO", verb |-> "sold",
              shares |-> <<"2", ",", "5", "0", "0">>, tradedate |-> "4 February 2026" ]
PriceNok == [ t |-> "price", ccy |-> NOK, price |-> <<"1", "2", ",", "5">> ]
PriceEur == [ t |-> "price", ccy |-> <<"e", "u", "r">>, price |-> <<"3">> ]
TotalCl  == [ t |-> "total", shares |-> <<"1", " ", "0", "0", "0">> ]
AvgCl    == [ t |-> "avg", ccy |-> NOK, price |-> <<"9", ".", "5">> ]
OtherCl  == [ t |-> "other" ]

Clauses == {SentJohn, SentJane, PriceNok, PriceEur, TotalCl, AvgCl, OtherCl}

\* chunks and person blocks of a form
Chunk(nature, date, pv, agg, vol2, vwapLabel, vwap, nok, total) ==
    [ nature |-> nature, date |-> date, pv |-> pv, agg |-> agg, vol2 |-> vol2,
      vwapLabel |-> vwapLabel, vwap |-> vwap, nok |-> nok, total |-> total ]

\* "Price: NOK 288.845, volume: 4,859"
ChunkPv ==
    Chunk({"acquisition"}, "2026-02-04",
          << [ccy |-> NOK, price |-> <<"2","8","8",".","8","4","5">>,
              vol |-> <<"4",",","8","5","9">>] >>,
          <<>>, <<>>, FALSE, <<>>, TRUE,
          << [ccy |-> NOK, tot |-> <<"1",",","4","0","3",",","4","9","7",".","8","5","5">>] >>)
\* no "Price:" line, a volume weighted average price and an aggregated volume
ChunkVwap ==
    Chunk({"disposal"}, "2026-02-05", <<>>, << <<"5", "0", "0">> >>, << <<"5", "0", "0">> >>,
          TRUE, << <<"1", "0", ",", "5">> >>, TRUE, <<>>)
\* a chunk in which no label is found
ChunkBlank == Chunk({}, "", <<>>, <<>>, <<>>, FALSE, <<>>, FALSE, <<>>)

BlockJohn  == [name |-> "John Doe", role |-> "CEO", issuer |-> "Aker ASA", chunks |-> <<ChunkPv>>]
BlockJane  == [name |-> "Jane Roe", role |-> "CFO", issuer |-> "", chunks |-> <<ChunkVwap>>]
BlockTwice == [name |-> "John Doe", role |-> "CEO", issuer |-> "Aker ASA",
               chunks |-> <<ChunkPv, ChunkPv>>]
BlockNoise == [name |-> "", role |-> "", issuer |-> "", chunks |-> <<ChunkBlank>>]

\* attachments: a failing download, an image-only scan, a file pdfplumber
\* cannot read, a text without any field, forms of one and of two persons
AttBroken     == [url |-> "p1", dl |-> "err", conv |-> "ok", text |-> <<BlockJohn>>]
AttImage      == [url |-> "p2", dl |-> "ok", conv |-> "ok", text |-> <<>>]
AttUnreadable == [url |-> "p3", dl |-> "ok", conv |-> "err", text |-> <<BlockJohn>>]
AttNoise      == [url |-> "p4", dl |-> "ok", conv |-> "ok", text |-> <<BlockNoise>>]
AttForm1      == [url |-> "p5", dl |-> "ok", conv |-> "ok", text |-> <<BlockTwice>>]
AttForm2      == [url |-> "p6", dl |-> "ok", conv |-> "ok", text |-> <<BlockJohn, BlockJane>>]

Attachments == {AttBroken, AttImage, AttUnreadable, AttNoise, AttForm1, AttForm2}

\* release pages: an image-only attachment and a body without a match; a
\* form behind a failing attachment; no attachment and a sentence
PageImage ==
    [ date_filed |-> "05 Feb 2026 14:48 CET", issuer |-> "Aker", symbol |-> TickerAA,
      market |-> "Oslo Bors", body_text |-> <<OtherCl>>, pdf_hrefs |-> <<AttImage>> ]
PageForm ==
    [ date_filed |-> "", issuer |-> "", symbol |-> TickerBB, market |-> "",
      body_text |-> <<SentJohn>>, pdf_hrefs |-> <<AttBroken, AttForm2, AttForm2>> ]
PageText ==
    [ date_filed |-> "", issuer |-> "", symbol |-> <<>>, market |-> "Oslo Bors",
      body_text |-> <<SentJane, PriceNok>>, pdf_hrefs |-> <<>> ]

\* what a request for a page returns: <<>> is a failed request
Responses == {<<>>, <<PageImage>>, <<PageForm>>, <<PageText>>}

\* data/osebx_tickers.csv: no file, an empty file, and files whose first
\* cells need stripping and upper-casing
AllowFiles ==
    { [exists |-> FALSE, rows |-> <<>>],
      [exists |-> TRUE, rows |-> <<>>],
      [exists |-> TRUE, rows |-> << << <<" ", "a", "a">> >> >>],
      [exists |-> TRUE, rows |-> << <<>>, << <<" ">> >>, << TickerBB, <<"x">> >> >>] }

\* tables a run can start from: no file, and tables earlier runs wrote
InitTables ==
    { <<>>,
      DocRows(Candidate(TrA), FallbackMeta, <<>>, {}),
      DocRows(Candidate(TrA1), FallbackMeta, <<>>, {}) }

-----------------------------------------------------------------------------
(* main() as a state machine: Start reads the allow-list, the listing and   *)
(* the table; ProcessDoc is one iteration of the candidate loop; WriteOut   *)
(* writes the table and ends the run.                                       *)

NoSite == [l \in Links |-> <<>>]

MainIdle ==
    /\ pc = "idle"
    /\ osebx = {}
    /\ candidate_releases = <<>>
    /\ existing_ids = {}
    /\ existing_rows = <<>>
    /\ new_rows = <<>>
    /\ k = 1
    /\ log = <<>>

MainOff ==
    /\ MainIdle
    /\ persisted = <<>>
    /\ cache_html = NoSite
    /\ runs = MaxRuns
    /\ mode = "off"
    /\ in_listing = <<>>
    /\ in_allow = [exists |-> FALSE, rows |-> <<>>]
    /\ site = NoSite
    /\ after_first = <<>>

OrcOff == orc_pc = "off" /\ orc_meta = FallbackMeta /\ orc_out = <<>>
TxtOff == txt_pc = "off" /\ txt_body = <<>> /\ txt_trades = <<>>
NumOff == num_pc = "off" /\ num_x = <<>> /\ num_int = <<>> /\ num_dec = <<>>
FormOff == form_pc = "off" /\ form_text = <<>> /\ form_trades = <<>>

\* os.path.exists(...) guards load_osebx
LoadAllow(file) == IF file.exists THEN load_osebx(file.rows) ELSE {}

Start ==
    /\ pc = "idle"
    /\ runs < MaxRuns
    /\ \E listing \in (IF mode = "fixed" THEN {in_listing} ELSE Listings),
          allow \in (IF mode = "fixed" THEN {in_allow} ELSE AllowFiles) :
          /\ osebx' = LoadAllow(allow)
          /\ candidate_releases' = Scrape(listing, {})
    /\ existing_rows' = persisted
    /\ existing_ids' = ExistingIds(persisted)
    /\ new_rows' = <<>>
    /\ k' = 1
    /\ log' = <<>>
    /\ pc' = "loop"
    /\ UNCHANGED << persisted, cache_html, runs, mode, in_listing, in_allow, site,
                    after_first, orcVars, txtVars, numVars, formVars >>

\* in a repeated run a link answers as it answered before
ResponsesFor(link) ==
    IF mode = "fixed" /\ site[link] # <<>> THEN {site[link][1]} ELSE Responses

ProcessDoc ==
    /\ pc = "loop"
    /\ k <= Len(candidate_releases)
    /\ LET rel == candidate_releases[k]
       IN  \E resp \in ResponsesFor(rel.link) :
             LET out == LoopBody(rel, cache_html, resp, osebx, existing_ids)
                 requested == out.fetched /\ cache_html[rel.link] = <<>>
             IN  /\ new_rows' = new_rows \o out.rows
                 /\ cache_html' = IF requested /\ resp # <<>>
                                  THEN [cache_html EXCEPT ![rel.link] = resp]
                                  ELSE cache_html
                 /\ site' = IF mode = "fixed" /\ requested
                            THEN [site EXCEPT ![rel.link] = <<resp>>]
                            ELSE site
                 /\ log' = Append(log, [ link |-> rel.link, guess |-> rel.ticker_guess,
                                         ev |-> out.ev, fetched |-> out.fetched,
                                         failed |-> out.failed,
                                         extracted |-> out.extracted,
                                         symbol |-> out.symbol,
                                         ticker |-> out.ticker,
                                         ntrades |-> out.ntrades ])
    /\ k' = k + 1
    /\ UNCHANGED << persisted, pc, osebx, candidate_releases, existing_ids,
                    existing_rows, runs, mode, in_listing, in_allow, after_first,
                    orcVars, txtVars, numVars, formVars >>

WriteOut ==
    /\ pc = "loop"
    /\ k > Len(candidate_releases)
    /\ persisted' = AllRows(existing_rows, new_rows)
    /\ after_first' = IF mode = "fixed" /\ runs = 0 THEN persisted' ELSE after_first
    /\ runs' = runs + 1
    /\ pc' = "idle"
    /\ osebx' = {}
    /\ candidate_releases' = <<>>
    /\ existing_ids' = {}
    /\ existing_rows' = <<>>
    /\ new_rows' = <<>>
    /\ k' = 1
    /\ log' = <<>>
    /\ UNCHANGED << cache_html, mode, in_listing, in_allow, site,
                    orcVars, txtVars, numVars, formVars >>

Next == Start \/ ProcessDoc \/ WriteOut

\* runs over inputs that may change from run to run
Init ==
    /\ MainIdle
    /\ persisted \in InitTables
    /\ cache_html = NoSite
    /\ runs = 0
    /\ mode = "free"
    /\ in_listing = <<>>
    /\ in_allow = [exists |-> FALSE, rows |-> <<>>]
    /\ site = NoSite
    /\ after_first = <<>>
    /\ OrcOff /\ TxtOff /\ NumOff /\ FormOff

Spec == Init /\ [][Next]_vars

\* runs that repeat over one fixed set of inputs
InitRepeat ==
    /\ MainIdle
    /\ persisted \in InitTables
    /\ cache_html = NoSite
    /\ runs = 0
    /\ mode = "fixed"
    /\ in_listing \in Listings
    /\ in_allow \in AllowFiles
    /\ site = NoSite
    /\ after_first = <<>>
    /\ OrcOff /\ TxtOff /\ NumOff /\ FormOff

SpecRepeat == InitRepeat /\ [][Next]_vars

-----------------------------------------------------------------------------
(* Harness of the orchestrator: one document, the orchestrator applied *)

OrcBodies == {<<>>, <<OtherCl>>, <<SentJane, PriceNok>>, <<TotalCl, AvgCl>>}

OrcInit ==
    /\ orc_pc = "input"
    /\ orc_meta \in { [FallbackMeta EXCEPT !.body_text = b, !.pdf_urls = p] :
                        b \in OrcBodies, p \in SeqsUpTo(Attachments, MaxAtt) }
    /\ orc_out = <<>>
    /\ MainOff /\ TxtOff /\ NumOff /\ FormOff

Orchestrate ==
    /\ orc_pc = "input"
    /\ orc_pc' = "done"
    /\ orc_out' = <<extract_trades_prefer_pdf_then_fallback(orc_meta)>>
    /\ UNCHANGED << orc_meta, mainVars, txtVars, numVars, formVars >>

OrcNext == Orchestrate

SpecOrc == OrcInit /\ [][OrcNext]_vars

-----------------------------------------------------------------------------
(* Harness of the free-text extractor: one body text, the extractor applied *)

TxtInit ==
    /\ txt_pc = "input"
    /\ txt_body \in SeqsUpTo(Clauses, MaxBodyLen)
    /\ txt_trades = <<>>
    /\ MainOff /\ OrcOff /\ NumOff /\ FormOff

ExtractText ==
    /\ txt_pc = "input"
    /\ txt_pc' = "done"
    /\ txt_trades' = extract_trades_from_text(txt_body)
    /\ UNCHANGED << txt_body, mainVars, orcVars, numVars, formVars >>

TxtNext == ExtractText

SpecTxt == TxtInit /\ [][TxtNext]_vars

-----------------------------------------------------------------------------
(* Harness of the numeric normalizers: one input, both normalizers applied *)

NumAlphabet == {"1", "7", " ", ",", ".", "x"}

\* the inputs named in the docstring of _to_decimalish and in the form examples
Ex_SpaceComma == <<"1"," ","4","0","3"," ","4","9","7",",","8","5","5">>
Ex_CommaDot   == <<"1",",","4","0","3",",","4","9","7",".","8","5","5">>
Ex_Comma      == <<"2","8","8",",","8","4","5">>
Ex_Dot        == <<"2","8","8",".","8","4","5">>
Ex_Vol        == <<"4",",","8","5","9">>

NumExamples == {Ex_SpaceComma, Ex_CommaDot, Ex_Comma, Ex_Dot, Ex_Vol}

NumInputs == SeqsUpTo(NumAlphabet, MaxNumLen) \cup NumExamples

NumInit ==
    /\ num_pc = "input"
    /\ num_x \in NumInputs
    /\ num_int = <<>>
    /\ num_dec = <<>>
    /\ MainOff /\ OrcOff /\ TxtOff /\ FormOff

Normalize ==
    /\ num_pc = "input"
    /\ num_pc' = "done"
    /\ num_int' = _to_intish(num_x)
    /\ num_dec' = _to_decimalish(num_x)
    /\ UNCHANGED << num_x, mainVars, orcVars, txtVars, formVars >>

NumNext == Normalize

SpecNum == NumInit /\ [][NumNext]_vars

-----------------------------------------------------------------------------
(* Harness of the structured-form extractor: one attachment text, the       *)
(* extractor applied                                                        *)

MaxBlocks == 2

\* what "Price: CCY amount[, volume: amount]" captures.  The amount group
\* takes one or more digits, periods, commas and white space, so it can hold
\* no digit at all; IGNORECASE lets the currency group take lower case.
PvFull  == << [ccy |-> NOK, price |-> <<"2","8","8",".","8","4","5">>,
               vol |-> <<"4",",","8","5","9">>] >>
\* "Price: nok" before a line break
PvBlank == << [ccy |-> <<"n","o","k">>, price |-> <<" ">>, vol |-> <<>>] >>
\* "Price: EUR , volume: 100"
PvComma == << [ccy |-> <<"E","U","R">>, price |-> <<",", " ">>, vol |-> <<"1","0","0">>] >>

FormPv == {<<>>, PvFull, PvBlank, PvComma}

\* the "Volume weighted average price" label: absent, without and with a value
FormVwap == { [label |-> FALSE, vwap |-> <<>>],
              [label |-> TRUE, vwap |-> <<>>],
              [label |-> TRUE, vwap |-> << <<"1","0",",","5">> >>] }

\* the other searches of a chunk: all failing, all matching
FormRest == { [nature |-> {}, date |-> "", agg |-> <<>>, vol2 |-> <<>>, total |-> <<>>],
              [nature |-> {"disposal"}, date |-> "2026-02-05",
               agg |-> << <<"5","0","0">> >>, vol2 |-> << <<"5","0","0">> >>,
               total |-> << [ccy |-> NOK, tot |-> <<"1"," ","4","0","3",",","5">>] >>] }

\* the word NOK occurs in a chunk whose captured groups hold it
HoldsNOK(ch) ==
    \/ ch.pv # <<>> /\ ch.pv[1].ccy = NOK
    \/ ch.total # <<>> /\ ch.total[1].ccy = NOK

FormChunks ==
    { ch \in { Chunk(r.nature, r.date, pv, r.agg, r.vol2, w.label, w.vwap, nok, r.total) :
                 r \in FormRest, pv \in FormPv, w \in FormVwap, nok \in BOOLEAN } :
        HoldsNOK(ch) => ch.nok }

\* person blocks: with and without the person fields, one chunk or a repeated one
FormBlocks ==
    { [name |-> p.name, role |-> p.role, issuer |-> p.issuer, chunks |-> <<ch>>] :
        p \in { [name |-> "John Doe", role |-> "CEO", issuer |-> "Aker ASA"],
                [name |-> "", role |-> "", issuer |-> ""] },
        ch \in FormChunks }
    \cup {BlockTwice}

FormInit ==
    /\ form_pc = "input"
    /\ form_text \in SeqsUpTo(FormBlocks, MaxBlocks)
    /\ form_trades = <<>>
    /\ MainOff /\ OrcOff /\ TxtOff /\ NumOff

ParseForm ==
    /\ form_pc = "input"
    /\ form_pc' = "done"
    /\ form_trades' = parse_mar_pdf_text(form_text)
    /\ UNCHANGED << form_text, mainVars, orcVars, txtVars, numVars >>

FormNext == ParseForm

SpecForm == FormInit /\ [][FormNext]_vars

-----------------------------------------------------------------------------
(* Properties of the numeric normalizers *)

DigitsOf(s) == SelectSeq(s, LAMBDA ch : ch \in Digits)

\* the separator policy: the decimal point stands where the last period of
\* the input stands, or its last comma when it holds no period
DecimalPolicy(x) ==
    LET sep == IF Has(x, ".") THEN "." ELSE ","
        p   == LastIndex(x, sep)
    IN  IF p = 0 THEN DigitsOf(x)
        ELSE DigitsOf(SubSeq(x, 1, p - 1)) \o <<".">> \o DigitsOf(SubSeq(x, p + 1, Len(x)))

\* C10: on every input over digits, spaces, commas and periods _to_decimalish
\* drops the spaces, reads commas as thousands separators when a period is
\* present and as decimal separators otherwise, and keeps only the last
\* period; "1 403 497,855" and "1,403,497.855" give "1403497.855", "288,845"
\* gives "288.845", and _to_intish("4,859") is "4859".
C10_SeparatorPolicy ==
    num_pc = "done" =>
        /\ (\A i \in 1..Len(num_x) : num_x[i] \in Digits \cup {" ", ",", "."})
              => num_dec = DecimalPolicy(num_x)
        /\ num_x = Ex_SpaceComma
              => num_dec = <<"1","4","0","3","4","9","7",".","8","5","5">>
        /\ num_x = Ex_CommaDot
              => num_dec = <<"1","4","0","3","4","9","7",".","8","5","5">>
        /\ num_x = Ex_Comma => num_dec = <<"2","8","8",".","8","4","5">>
        /\ num_x = Ex_Vol => num_int = <<"4","8","5","9">>

\* an input with a comma and more than one period has been normalized
C10_Witness ==
    /\ num_pc = "done"
    /\ Has(num_x, ",")
    /\ Count(num_x, ".") > 1
    /\ Has(num_x, "1")
    /\ Count(num_dec, ".") = 1

\* C11: for every input text that holds no digit (text made only of
\* separators such as "," or "." included) both _to_intish and _to_decimalish
\* return the empty string.
C11_NoDigitEmpty ==
    (num_pc = "done" /\ DigitsOf(num_x) = <<>>) =>
        /\ num_int = <<>>
        /\ num_dec = <<>>

-----------------------------------------------------------------------------
(* Properties of the free-text extractor *)

SentAt(body)  == {i \in 1..Len(body) : body[i].t = "sent"}
PriceAt(body) == {i \in 1..Len(body) : body[i].t = "price"}

\* the sentence pattern matches and no match carries a price: no "price"
\* clause follows the first sentence (the optional group reaches any later one)
NoMatchCarriesPrice(body) ==
    /\ SentAt(body) # {}
    /\ \A p \in PriceAt(body) : \A s \in SentAt(body) : p < s

\* "CCY amount" of the first standalone "share price of" occurrence
FallbackPrice(body) ==
    LET p == CHOOSE a \in PriceAt(body) : \A b \in PriceAt(body) : a <= b
    IN  Money(Upper(body[p].ccy), _to_decimalish(body[p].price))

\* C9: when the sentence pattern matches but no match carries a price and the
\* body holds a standalone "share price of CCY amount", every returned record
\* without a price of its own has that "CCY amount" as its Price.
C9_SharedFallbackPrice ==
    (txt_pc = "done" /\ NoMatchCarriesPrice(txt_body) /\ PriceAt(txt_body) # {}) =>
        /\ txt_trades # <<>>
        /\ \A i \in 1..Len(txt_trades) : txt_trades[i].Price = FallbackPrice(txt_body)

-----------------------------------------------------------------------------
(* Properties of the orchestrator *)

\* an attachment that yields at least one record
Yields(att) ==
    /\ att.dl = "ok"
    /\ att.conv = "ok"
    /\ att.text # <<>>
    /\ parse_mar_pdf_text(att.text) # <<>>

UpTo(n) == [i \in 1..n |-> i]

\* C5: the orchestrator touches the attachments in order, never beyond the
\* third, stops at the first one that yields a record and returns its
\* records without reading the body; it runs the free-text extractor on the
\* body exactly when none of the first three yields a record, a failed
\* download, a failed conversion and an empty text counting as no record.
C5_FallbackOrder ==
    orc_pc = "done" =>
        LET out  == orc_out[1]
            pdfs == orc_meta.pdf_urls
            n    == IF Len(pdfs) < 3 THEN Len(pdfs) ELSE 3
            win  == {i \in 1..n : Yields(pdfs[i])}
        IN  IF win # {}
            THEN LET f == CHOOSE a \in win : \A b \in win : a <= b
                 IN  /\ out.trades = parse_mar_pdf_text(pdfs[f].text)
                     /\ out.touched = UpTo(f)
                     /\ ~out.body_used
            ELSE /\ out.touched = UpTo(n)
                 /\ out.body_used
                 /\ out.trades = extract_trades_from_text(orc_meta.body_text)

\* a failed download and an image-only scan come before a form, a fourth
\* attachment follows it: the form's records are returned, the fourth
\* attachment and the body are left alone
C5_Witness ==
    /\ orc_pc = "done"
    /\ orc_meta.pdf_urls = <<AttBroken, AttImage, AttForm2, AttForm1>>
    /\ orc_meta.body_text = <<SentJane, PriceNok>>
    /\ orc_out[1].touched = <<1, 2, 3>>
    /\ Len(orc_out[1].trades) = 2
    /\ ~orc_out[1].body_used

-----------------------------------------------------------------------------
(* Properties of main() *)

\* the rows of a table that belong to a document
RowsOf(link, rows) == SelectSeq(rows, LAMBDA r : r.Source_link = link)

HasRecord(link, rows) == \E i \in 1..Len(rows) : rows[i].Source_link = link

\* "<documentLocator>|<position>"
IdOf(link, position) == link \o <<"|">> \o ToStr(position)

TradeFieldsEmpty(r) ==
    /\ r.Insider_name = ""
    /\ r.Role = ""
    /\ r.Transaction = ""
    /\ r.Shares = <<>>
    /\ r.Price = <<>>
    /\ r.Value = <<>>
    /\ r.Ownership_after = <<>>
    /\ r.Trade_date = ""

\* a step that ends a run
Writes == pc = "loop" /\ pc' = "idle"

\* C1: with the listing, the pages, the attachments and the allow-list
\* unchanged, a run after the first leaves the table as the first run left
\* it and adds no row.
C1_Idempotent ==
    (mode = "fixed" /\ runs >= 1) =>
        /\ new_rows = <<>>
        /\ pc = "idle" => persisted = after_first

\* a second run over a listing of two documents has ended, the first run
\* having added rows
C1_Witness ==
    /\ mode = "fixed"
    /\ runs = 2
    /\ pc = "idle"
    /\ Len(Scrape(in_listing, {})) = 2
    /\ Len(after_first) >= 3
    /\ persisted = after_first

\* C2: no two rows of the table share a Unique_ID, and every Unique_ID is the
\* row's document locator, "|" and a position.
C2_UniqueIds ==
    /\ \A i, j \in 1..Len(persisted) :
          i # j => persisted[i].Unique_ID # persisted[j].Unique_ID
    /\ \A i \in 1..Len(persisted) :
          \E n \in 0..Len(persisted) :
             persisted[i].Unique_ID = IdOf(persisted[i].Source_link, n)

\* two runs have ended and the table holds rows of at least two documents,
\* one of them with several positions
C2_Witness ==
    /\ pc = "idle"
    /\ runs = 2
    /\ Len(persisted) >= 4
    /\ \E i, j \in 1..Len(persisted) :
          /\ i # j
          /\ persisted[i].Source_link = persisted[j].Source_link
    /\ HasRecord(LinkA, persisted)
    /\ HasRecord(LinkA1, persisted)

\* C3: a candidate whose locator has a record in the table, at any position,
\* is neither fetched nor extracted and adds no row; the rows of a document
\* that has any never change afterwards.
C3_SkipSeen ==
    [][ /\ (pc = "loop" /\ k' = k + 1) =>
             LET e == log'[Len(log')]
             IN  HasRecord(e.link, persisted) =>
                    ~e.fetched /\ ~e.extracted /\ new_rows' = new_rows
        /\ \A link \in Links :
             HasRecord(link, persisted) => RowsOf(link, persisted') = RowsOf(link, persisted)
      ]_vars

\* a candidate whose only record is the position-0 placeholder was skipped
C3_Witness ==
    /\ pc = "loop"
    /\ \E i \in 1..Len(log) :
          /\ log[i].ev = "skip"
          /\ Len(RowsOf(log[i].link, persisted)) = 1
          /\ RowsOf(log[i].link, persisted)[1].Unique_ID = IdOf(log[i].link, 0)

\* the place of a document in the listing order of the run
CandIndex(link) ==
    CHOOSE i \in 1..Len(candidate_releases) : candidate_releases[i].link = link

\* the position a Unique_ID of a document ends with
PositionOf(r) ==
    CHOOSE n \in 0..(Len(new_rows) + 1) : r.Unique_ID = IdOf(r.Source_link, n)

\* C4: a run leaves the earlier rows unchanged and in place and appends its
\* new rows after them, documents in listing order and the rows of a
\* document in extraction order; the table changes at no other time and
\* never shrinks.
C4_AppendOnly ==
    [][ IF Writes
        THEN LET old == Len(persisted)
                 new == SubSeq(persisted', old + 1, Len(persisted'))
             IN  /\ Len(persisted') >= old
                 /\ SubSeq(persisted', 1, old) = persisted
                 /\ new = new_rows
                 /\ \A i, j \in 1..Len(new) :
                       i < j =>
                          \/ CandIndex(new[i].Source_link) < CandIndex(new[j].Source_link)
                          \/ /\ new[i].Source_link = new[j].Source_link
                             /\ PositionOf(new[i]) < PositionOf(new[j])
        ELSE persisted' = persisted
      ]_vars

\* a run has appended the rows of two documents, one with two positions, to
\* a table that held a row
C4_Witness ==
    /\ pc = "idle"
    /\ runs >= 1
    /\ Len(persisted) >= 4
    /\ persisted[1].Unique_ID = IdOf(LinkA, 0)
    /\ \E i \in 2..(Len(persisted) - 1) :
          /\ persisted[i].Source_link # persisted[i + 1].Source_link
          /\ persisted[i].Source_link # LinkA

\* C6: a document that reaches trade extraction with no record in the table
\* adds exactly the position-0 row with empty trade fields when its
\* extraction result is empty, and exactly the rows of positions 1..n, in
\* order, when the result holds n records.
C6_Positions ==
    pc = "loop" =>
        \A i \in 1..Len(log) :
           (log[i].extracted /\ ~HasRecord(log[i].link, persisted)) =>
              LET rows == RowsOf(log[i].link, new_rows)
                  n    == log[i].ntrades
              IN  IF n = 0
                  THEN /\ Len(rows) = 1
                       /\ rows[1].Unique_ID = IdOf(log[i].link, 0)
                       /\ TradeFieldsEmpty(rows[1])
                  ELSE /\ Len(rows) = n
                       /\ \A j \in 1..n : rows[j].Unique_ID = IdOf(log[i].link, j)

\* in one run a document without any extracted record and a document with
\* two records went through trade extraction
C6_Witness ==
    /\ pc = "loop"
    /\ \E i, j \in 1..Len(log) :
          /\ log[i].extracted /\ log[i].ntrades = 0 /\ ~log[i].failed
          /\ log[j].extracted /\ log[j].ntrades = 2
          /\ Len(RowsOf(log[i].link, new_rows)) = 1
          /\ Len(RowsOf(log[j].link, new_rows)) = 2

\* the signal-only row of a document whose page could not be fetched: no
\* trade details, and the listing's own company, date and ticker guess
IsFetchFailureRow(r, rel) ==
    /\ r.Unique_ID = IdOf(rel.link, 0)
    /\ r.Source_link = rel.link
    /\ TradeFieldsEmpty(r)
    /\ r.Ticker = Upper(rel.ticker_guess)
    /\ r.Company = rel.company
    /\ r.Date_filed = rel.released
    /\ r.Market = "EURONEXT/OSLO"

\* the allow-list filter applies to the listing's ticker guess
GuessFilteredOut(rel) ==
    /\ osebx # {}
    /\ Upper(rel.ticker_guess) # <<>>
    /\ Upper(rel.ticker_guess) \notin osebx

\* C7 as stated: when fetching a candidate's page raises, the run goes on
\* with the next document and the failed document ends up with the
\* signal-only row of position 0 in the table.
C7_FetchFailurePlaceholder ==
    [][ Writes =>
          /\ Len(log) = Len(candidate_releases)
          /\ \A i \in 1..Len(log) :
                log[i].failed =>
                   LET rows == RowsOf(log[i].link, persisted')
                   IN  Len(rows) = 1 /\ IsFetchFailureRow(rows[1], candidate_releases[i])
      ]_vars

\* C7 as amended: the failed document ends up with the signal-only row of
\* position 0 unless the allow-list filter discards it on the listing's
\* ticker guess, and then it has no row; the run goes on in either case.
C7_FetchFailurePlaceholderUnlessFiltered ==
    [][ Writes =>
          /\ Len(log) = Len(candidate_releases)
          /\ \A i \in 1..Len(log) :
                log[i].failed =>
                   LET rows == RowsOf(log[i].link, persisted')
                   IN  IF GuessFilteredOut(candidate_releases[i])
                       THEN rows = <<>> /\ ~log[i].extracted
                       ELSE Len(rows) = 1
                            /\ IsFetchFailureRow(rows[1], candidate_releases[i])
      ]_vars

\* the fetch of the first of two candidates failed, its signal-only row is
\* among the new rows and the second candidate was processed after it
C7_Witness ==
    /\ pc = "loop"
    /\ Len(log) = 2
    /\ log[1].failed
    /\ log[2].extracted
    /\ Len(RowsOf(log[1].link, new_rows)) = 1
    /\ IsFetchFailureRow(RowsOf(log[1].link, new_rows)[1], candidate_releases[1])

\* the resolved ticker: the page symbol, else the listing guess, upper-cased
Resolved(e) == Upper(IF e.symbol # <<>> THEN e.symbol ELSE e.guess)

\* C8 as stated: with an allow-list, every candidate whose resolved ticker is
\* not in the list, the empty ticker included, is dropped after the metadata
\* and before trade extraction and adds no row.
C8_AllowListFilter ==
    (pc = "loop" /\ osebx # {}) =>
        \A i \in 1..Len(log) :
           (log[i].fetched /\ Resolved(log[i]) \notin osebx) =>
              ~log[i].extracted /\ RowsOf(log[i].link, new_rows) = <<>>

\* C8 as amended: with a non-empty allow-list, every candidate whose resolved
\* ticker is not empty and not in the list is dropped after the metadata and
\* before trade extraction and adds no row; a candidate whose resolved
\* ticker is empty or in the list goes on to trade extraction.
C8_AllowListFilterNonEmptyTicker ==
    (pc = "loop" /\ osebx # {}) =>
        \A i \in 1..Len(log) :
           log[i].fetched =>
              /\ log[i].ticker = Resolved(log[i])
              /\ IF Resolved(log[i]) # <<>> /\ Resolved(log[i]) \notin osebx
                 THEN ~log[i].extracted /\ RowsOf(log[i].link, new_rows) = <<>>
                 ELSE log[i].extracted /\ RowsOf(log[i].link, new_rows) # <<>>

\* under one allow-list a candidate with a ticker outside the list was
\* dropped and a candidate without a ticker went on to trade extraction
C8_Witness ==
    /\ pc = "loop"
    /\ osebx # {}
    /\ \E i, j \in 1..Len(log) :
          /\ log[i].ev = "discard" /\ ~log[i].failed
          /\ log[i].ticker # <<>> /\ log[i].ticker \notin osebx
          /\ log[j].extracted /\ log[j].ticker = <<>>

-----------------------------------------------------------------------------
(* Properties of the Price field *)

\* a currency code: three upper-case letters
CurrencyCode(s) ==
    /\ Len(s) = 3
    /\ \A i \in 1..3 : \E j \in 1..26 : UpperLetters[j] = s[i]

\* a non-empty magnitude: digits and decimal points
Magnitude(s) ==
    /\ s # <<>>
    /\ \A i \in 1..Len(s) : s[i] \in Digits \cup {"."}

\* empty, or "CCY amount"
PriceWellFormed(p) ==
    \/ p = <<>>
    \/ /\ Len(p) >= 5
       /\ CurrencyCode(SubSeq(p, 1, 3))
       /\ p[4] = " "
       /\ Magnitude(SubSeq(p, 5, Len(p)))

\* C12: in every record either extractor returns, and in every persisted
\* row, the Price field is empty or a currency code followed by a non-empty
\* decimal magnitude; a currency code alone, or a magnitude without a
\* currency, never appears.
C12_PriceWellFormed ==
    /\ form_pc = "done" =>
          \A i \in 1..Len(form_trades) : PriceWellFormed(form_trades[i].Price)
    /\ txt_pc = "done" =>
          \A i \in 1..Len(txt_trades) : PriceWellFormed(txt_trades[i].Price)
    /\ \A i \in 1..Len(persisted) : PriceWellFormed(persisted[i].Price)

====
